---- MODULE Spec2Model ----
(***************************************************************************)
(* Model of cash_flow_minimizer.cpp: CashFlowMinimizer::run, i.e.          *)
(* readParticipants, readTransactions, computeNetBalances, settleDebts and *)
(* printResults, over the fields n_, people_ (balance_, upis_),            *)
(* debtMatrix_ and result_.  Participants are the indices 0..n-1 that      *)
(* idx_ assigns to their names; index 0 is the Treasurer.                  *)
(***************************************************************************)
EXTENDS Integers, Sequences, FiniteSets, TLC

----------------------------------------------------------------------------
(* Bounds of the explored inputs *)

\* size of the largest input typed in: a run with n participants and m debt
\* records is explored when 2 * n + m <= MaxInput (the code accepts any
\* n >= 2 and any m >= 0)
MaxInput == 8
\* number of transfers of result_ the model records; later ones are emitted
\* (see `emitted') but not stored, so that a loop that never ends is a cycle
MaxPlan == 4

\* payment identifiers typed in, in std::set<string> (lexicographic) order
ChannelOrder == <<"A", "B", "C">>
Channels == {ChannelOrder[k] : k \in 1..Len(ChannelOrder)}
\* what reading through begin() of an empty set may yield: a string that is
\* no identifier of anybody, or one that happens to equal a real identifier
Garbage == "?"
UBStrings == {Garbage, ChannelOrder[1]}
\* identifiers the Treasurer types in for itself (its set after the union
\* loop is this plus every member's set, so it shares with member i exactly
\* upis_ of i whatever it typed in)
TreasurerOwn == {{}, {ChannelOrder[1]}}
\* debt amounts typed in; 0 is the rejected `a <= 0'
DebtAmounts == {0, 5, 7}
\* index of a name idx_ does not contain
Unknown == -1

\* numeric_limits<int>::min()
IntMin == -2147483647 - 1

VARIABLES pc, n, upis, debtMatrix, balance, result, m,
          settledCount, settled, d, amtToPay, branch, emitted

vars == <<pc, n, upis, debtMatrix, balance, result, m,
          settledCount, settled, d, amtToPay, branch, emitted>>

People == 0..(n - 1)

----------------------------------------------------------------------------
(* Helpers *)

Rank(u) == CHOOSE k \in 1..Len(ChannelOrder) : ChannelOrder[k] = u

\* *s.begin() / common.front(): the smallest string of a non-empty sorted set
First(S) == CHOOSE u \in S : \A v \in S : Rank(u) <= Rank(v)

\* *s.begin() as the build may evaluate it: the first element, or, for an
\* empty set (s.begin() == s.end(), undefined behaviour), any string at all
Deref(S) == IF S = {} THEN UBStrings ELSE {First(S)}

\* the larger of two amounts
MinTakesLarger(a, b) == IF b < a THEN a ELSE b

Min(a, b) == IF b < a THEN b ELSE a

\* set_intersection of two upis_ sets
Common(up, i, j) == up[i] \cap up[j]

RECURSIVE SumBal(_, _)
SumBal(bal, k) == IF k < 0 THEN 0 ELSE bal[k] + SumBal(bal, k - 1)

\* sum of all balances of the registry
TotalBalance == SumBal(balance, n - 1)

\* tuple<int,int,int,string> of result_
Transfer(from, to, amt, via) == [payer |-> from, payee |-> to, amount |-> amt, upi |-> via]

\* the transfer put in front of the plan
EmplaceFront(res, t) == IF Len(res) < MaxPlan THEN <<t>> \o res ELSE res

\* result_.emplace_back, recorded up to MaxPlan entries
EmplaceBack(res, t) == IF Len(res) < MaxPlan THEN Append(res, t) ELSE res

----------------------------------------------------------------------------
(* Pure functions of the planner *)

\* max_element with comparator a.balance() < b.balance(): first largest
RECURSIVE MaxElementFrom(_, _, _, _)
MaxElementFrom(bal, cnt, largest, it) ==
    IF it >= cnt THEN largest
    ELSE MaxElementFrom(bal, cnt, IF bal[largest] < bal[it] THEN it ELSE largest, it + 1)

getMaxCreditor(bal, cnt) == MaxElementFrom(bal, cnt, 0, 1)

\* min_element with comparator a.balance() < b.balance(): first smallest
RECURSIVE MinElementFrom(_, _, _, _)
MinElementFrom(bal, cnt, smallest, it) ==
    IF it >= cnt THEN smallest
    ELSE MinElementFrom(bal, cnt, IF bal[it] < bal[smallest] THEN it ELSE smallest, it + 1)

getMaxDebtor(bal, cnt) == MinElementFrom(bal, cnt, 0, 1)

\* the scan skipping only negative balances: a settled participant who shares
\* an identifier counts as a creditor
RECURSIVE FindLoopNonNegative(_, _, _, _, _, _)
FindLoopNonNegative(bal, up, cnt, debtor, i, acc) ==
    IF i >= cnt THEN acc
    ELSE IF bal[i] < 0 THEN FindLoopNonNegative(bal, up, cnt, debtor, i + 1, acc)
    ELSE LET common == Common(up, debtor, i) IN
         IF common # {} /\ bal[i] > acc[2]
         THEN FindLoopNonNegative(bal, up, cnt, debtor, i + 1, <<i, bal[i], First(common)>>)
         ELSE FindLoopNonNegative(bal, up, cnt, debtor, i + 1, acc)

\* the scan recording the creditor's first identifier instead of the first
\* common one
RECURSIVE FindLoopCreditorFirst(_, _, _, _, _, _)
FindLoopCreditorFirst(bal, up, cnt, debtor, i, acc) ==
    IF i >= cnt THEN acc
    ELSE IF bal[i] <= 0 THEN FindLoopCreditorFirst(bal, up, cnt, debtor, i + 1, acc)
    ELSE LET common == Common(up, debtor, i) IN
         IF common # {} /\ bal[i] > acc[2]
         THEN FindLoopCreditorFirst(bal, up, cnt, debtor, i + 1, <<i, bal[i], First(up[i])>>)
         ELSE FindLoopCreditorFirst(bal, up, cnt, debtor, i + 1, acc)

\* the scan taking a later creditor with an equal balance
RECURSIVE FindLoopLastTie(_, _, _, _, _, _)
FindLoopLastTie(bal, up, cnt, debtor, i, acc) ==
    IF i >= cnt THEN acc
    ELSE IF bal[i] <= 0 THEN FindLoopLastTie(bal, up, cnt, debtor, i + 1, acc)
    ELSE LET common == Common(up, debtor, i) IN
         IF common # {} /\ bal[i] >= acc[2]
         THEN FindLoopLastTie(bal, up, cnt, debtor, i + 1, <<i, bal[i], First(common)>>)
         ELSE FindLoopLastTie(bal, up, cnt, debtor, i + 1, acc)

\* the scan of findSettlement: acc = <<bestCred, bestBal, via>>
RECURSIVE FindLoop(_, _, _, _, _, _)
FindLoop(bal, up, cnt, debtor, i, acc) ==
    IF i >= cnt THEN acc
    ELSE IF bal[i] <= 0 THEN FindLoop(bal, up, cnt, debtor, i + 1, acc)
    ELSE LET common == Common(up, debtor, i) IN
         IF common # {} /\ bal[i] > acc[2]
         THEN FindLoop(bal, up, cnt, debtor, i + 1, <<i, bal[i], First(common)>>)
         ELSE FindLoop(bal, up, cnt, debtor, i + 1, acc)

findSettlement(bal, up, cnt, debtor) ==
    LET acc == FindLoop(bal, up, cnt, debtor, 0, <<-1, IntMin, "">>)
    IN  <<acc[1], IF acc[1] >= 0 THEN acc[2] ELSE 0, acc[3]>>

\* updateSettled: the recomputed settledCount
RECURSIVE CountZero(_, _)
CountZero(bal, k) ==
    IF k < 0 THEN 0 ELSE (IF bal[k] = 0 THEN 1 ELSE 0) + CountZero(bal, k - 1)

\* updateSettled: the settled flags (set, never cleared)
updateSettledFlags(flags, bal) == [i \in DOMAIN flags |-> flags[i] \/ bal[i] = 0]

\* updateSettled: settledCount is reset and recounted from the balances
updateSettledCount(bal, cnt) == CountZero(bal, cnt - 1)

\* netting that adds what i is owed and forgets to subtract what i owes
RECURSIVE NetOfCreditsOnly(_, _, _)
NetOfCreditsOnly(dm, i, k) ==
    IF k < 0 THEN 0 ELSE NetOfCreditsOnly(dm, i, k - 1) + dm[k][i]

\* the inner loop of computeNetBalances for participant i, j = 0..k
RECURSIVE NetOf(_, _, _)
NetOf(dm, i, k) ==
    IF k < 0 THEN 0 ELSE NetOf(dm, i, k - 1) + (dm[k][i] - dm[i][k])

\* the union loop started at i = 2: the first member is left out
UnionTreasurerFromSecond(reg, cnt) ==
    [i \in 0..(cnt - 1) |->
        IF i = 0 THEN reg[0] \cup UNION {reg[j] : j \in 2..(cnt - 1)} ELSE reg[i]]

\* the Treasurer union loop of readParticipants
UnionTreasurer(reg, cnt) ==
    [i \in 0..(cnt - 1) |->
        IF i = 0 THEN reg[0] \cup UNION {reg[j] : j \in 1..(cnt - 1)} ELSE reg[i]]

----------------------------------------------------------------------------
(* State machine *)

Init ==
    /\ pc = "readParticipants"
    /\ n = 0
    /\ upis = << >>
    /\ debtMatrix = << >>
    /\ balance = << >>
    /\ result = << >>
    /\ m = 0
    /\ settledCount = 0
    /\ settled = << >>
    /\ d = -1
    /\ amtToPay = 0
    /\ branch = "none"
    /\ emitted = << >>

\* readParticipants accepts the input: n >= 2 and every UPI count k >= 0
ReadParticipants ==
    /\ pc = "readParticipants"
    /\ \E cnt \in 2..(MaxInput \div 2) :
       \E reg \in [0..(cnt - 1) -> SUBSET Channels] :
          /\ reg[0] \in TreasurerOwn
          /\ n' = cnt
          /\ upis' = UnionTreasurer(reg, cnt)
          /\ debtMatrix' = [i \in 0..(cnt - 1) |-> [j \in 0..(cnt - 1) |-> 0]]
          /\ balance' = [i \in 0..(cnt - 1) |-> 0]
    /\ pc' = "readTransactions"
    /\ UNCHANGED <<result, m, settledCount, settled, d, amtToPay, branch, emitted>>

\* readParticipants throws: n < 2, or a participant entry with k < 0
ReadParticipantsThrows ==
    /\ pc = "readParticipants"
    /\ pc' = "error"
    /\ UNCHANGED <<n, upis, debtMatrix, balance, result, m,
                   settledCount, settled, d, amtToPay, branch, emitted>>

\* readTransactions reads the debt count m
ReadDebtCount ==
    /\ pc = "readTransactions"
    /\ \E cnt \in -1..(MaxInput - 2 * n) :
          IF cnt < 0
          THEN pc' = "error" /\ m' = m
          ELSE pc' = "readDebt" /\ m' = cnt
    /\ UNCHANGED <<n, upis, debtMatrix, balance, result,
                   settledCount, settled, d, amtToPay, branch, emitted>>

\* a rejected debt record is skipped and reading goes on
ReadDebtSkipsRejected ==
    /\ pc = "readDebt"
    /\ m > 0
    /\ \E dn \in People \cup {Unknown}, cn \in People \cup {Unknown}, a \in DebtAmounts :
          IF a <= 0 \/ dn = Unknown \/ cn = Unknown
          THEN /\ pc' = pc
               /\ m' = m - 1
               /\ UNCHANGED debtMatrix
          ELSE /\ debtMatrix' = [debtMatrix EXCEPT ![dn][cn] = @ + a]
               /\ m' = m - 1
               /\ pc' = pc
    /\ UNCHANGED <<n, upis, balance, result,
                   settledCount, settled, d, amtToPay, branch, emitted>>

\* a record replacing the amount already owed instead of adding to it
ReadDebtOverwrites ==
    /\ pc = "readDebt"
    /\ m > 0
    /\ \E dn \in People \cup {Unknown}, cn \in People \cup {Unknown}, a \in DebtAmounts :
          IF a <= 0 \/ dn = Unknown \/ cn = Unknown
          THEN /\ pc' = "error"
               /\ UNCHANGED <<debtMatrix, m>>
          ELSE /\ debtMatrix' = [debtMatrix EXCEPT ![dn][cn] = a]
               /\ m' = m - 1
               /\ pc' = pc
    /\ UNCHANGED <<n, upis, balance, result,
                   settledCount, settled, d, amtToPay, branch, emitted>>

\* one iteration of `while (m--)': read and accumulate one debt record
ReadDebt ==
    /\ pc = "readDebt"
    /\ m > 0
    /\ \E dn \in People \cup {Unknown}, cn \in People \cup {Unknown}, a \in DebtAmounts :
          IF a <= 0 \/ dn = Unknown \/ cn = Unknown
          THEN /\ pc' = "error"
               /\ UNCHANGED <<debtMatrix, m>>
          ELSE /\ debtMatrix' = [debtMatrix EXCEPT ![dn][cn] = @ + a]
               /\ m' = m - 1
               /\ pc' = pc
    /\ UNCHANGED <<n, upis, balance, result,
                   settledCount, settled, d, amtToPay, branch, emitted>>

\* `while (m--)' ends
ReadDebtsDone ==
    /\ pc = "readDebt"
    /\ m = 0
    /\ pc' = "computeNetBalances"
    /\ UNCHANGED <<n, upis, debtMatrix, balance, result, m,
                   settledCount, settled, d, amtToPay, branch, emitted>>

ComputeNetBalances ==
    /\ pc = "computeNetBalances"
    /\ balance' = [i \in People |-> balance[i] + NetOf(debtMatrix, i, n - 1)]
    /\ pc' = "settleDebts"
    /\ UNCHANGED <<n, upis, debtMatrix, result, m,
                   settledCount, settled, d, amtToPay, branch, emitted>>

\* entry of settleDebts: the locals and the first updateSettled()
SettleDebtsEnter ==
    /\ pc = "settleDebts"
    /\ settledCount' = updateSettledCount(balance, n)
    /\ settled' = updateSettledFlags([i \in People |-> FALSE], balance)
    /\ pc' = "loop"
    /\ UNCHANGED <<n, upis, debtMatrix, balance, result, m, d, amtToPay, branch, emitted>>

\* the loop body entered once more when everybody is settled
LoopCondInclusive(sc, cnt) == sc <= cnt

\* the loop left one participant early
LoopCondOffByOne(sc, cnt) == sc < cnt - 1

\* the condition of `while (settledCount < n_)'
LoopCond(sc, cnt) == sc < cnt

\* the loop condition is true: the body of the loop is entered
LoopEnter ==
    /\ pc = "loop"
    /\ LoopCond(settledCount, n)
    /\ pc' = "round"
    /\ UNCHANGED <<n, upis, debtMatrix, balance, result, m,
                   settledCount, settled, d, amtToPay, branch, emitted>>

\* a round whose findSettlement finds a creditor: one direct transfer
RoundDirect ==
    /\ pc = "round"
    /\ LET dd == getMaxDebtor(balance, n)
           pay == -balance[dd]
           fs == findSettlement(balance, upis, n, dd)
           cBalance == fs[1]
           transfer == Min(pay, fs[2])
           b1 == [balance EXCEPT ![dd] = @ + transfer]
           b2 == [b1 EXCEPT ![cBalance] = @ - transfer]
       IN  /\ cBalance >= 0
           /\ result' = EmplaceBack(result, Transfer(dd, cBalance, transfer, fs[3]))
           /\ emitted' = <<Transfer(dd, cBalance, transfer, fs[3])>>
           /\ balance' = b2
           /\ settledCount' = updateSettledCount(b2, n)
           /\ settled' = updateSettledFlags(settled, b2)
    /\ branch' = "direct"
    /\ pc' = "loop"
    /\ UNCHANGED <<n, upis, debtMatrix, m, d, amtToPay>>

\* a round whose findSettlement finds nobody: the transfer debtor -> Treasurer
RoundFallbackToTreasurer ==
    /\ pc = "round"
    /\ LET dd == getMaxDebtor(balance, n)
           pay == -balance[dd]
           fs == findSettlement(balance, upis, n, dd)
           t == 0
           b1 == [balance EXCEPT ![t] = @ + pay]
           b2 == [b1 EXCEPT ![dd] = @ + pay]
       IN  /\ fs[1] < 0
           /\ \E via \in Deref(upis[dd]) :
                 /\ result' = EmplaceBack(result, Transfer(dd, t, pay, via))
                 /\ emitted' = <<Transfer(dd, t, pay, via)>>
           /\ balance' = b2
           /\ d' = dd
           /\ amtToPay' = pay
    /\ branch' = "fallback"
    /\ pc' = "fallback"
    /\ UNCHANGED <<n, upis, debtMatrix, m, settledCount, settled>>

\* the second half of the fallback: Treasurer -> highest creditor, updateSettled
RoundFallbackToCreditor ==
    /\ pc = "fallback"
    /\ LET t == 0
           fc == getMaxCreditor(balance, n)
           tamt == balance[t]
           b1 == [balance EXCEPT ![fc] = @ - tamt]
           b2 == [b1 EXCEPT ![t] = @ - tamt]
       IN  /\ \E via \in Deref(upis[fc]) :
                 /\ result' = EmplaceBack(result, Transfer(t, fc, tamt, via))
                 /\ emitted' = Append(emitted, Transfer(t, fc, tamt, via))
           /\ balance' = b2
           /\ settledCount' = updateSettledCount(b2, n)
           /\ settled' = updateSettledFlags(settled, b2)
    /\ d' = -1
    /\ amtToPay' = 0
    /\ pc' = "loop"
    /\ UNCHANGED <<n, upis, debtMatrix, m, branch>>

\* the fallback reads *upis().begin() of an empty set and the process faults:
\* of the debtor before the first transfer, of the creditor before the second
FallbackDerefFaults ==
    /\ \/ /\ pc = "round"
          /\ LET dd == getMaxDebtor(balance, n)
             IN  /\ findSettlement(balance, upis, n, dd)[1] < 0
                 /\ upis[dd] = {}
       \/ /\ pc = "fallback"
          /\ upis[getMaxCreditor(balance, n)] = {}
    /\ pc' = "crash"
    /\ UNCHANGED <<n, upis, debtMatrix, balance, result, m,
                   settledCount, settled, d, amtToPay, branch, emitted>>

\* the loop condition is false: settleDebts returns
LoopExit ==
    /\ pc = "loop"
    /\ ~LoopCond(settledCount, n)
    /\ pc' = "printResults"
    /\ UNCHANGED <<n, upis, debtMatrix, balance, result, m,
                   settledCount, settled, d, amtToPay, branch, emitted>>

PrintResults ==
    /\ pc = "printResults"
    /\ pc' = "done"
    /\ UNCHANGED <<n, upis, debtMatrix, balance, result, m,
                   settledCount, settled, d, amtToPay, branch, emitted>>

Next ==
    \/ ReadParticipants
    \/ ReadParticipantsThrows
    \/ ReadDebtCount
    \/ ReadDebt
    \/ ReadDebtsDone
    \/ ComputeNetBalances
    \/ SettleDebtsEnter
    \/ LoopEnter
    \/ RoundDirect
    \/ RoundFallbackToTreasurer
    \/ RoundFallbackToCreditor
    \/ FallbackDerefFaults
    \/ LoopExit
    \/ PrintResults

Spec == Init /\ [][Next]_vars

\* the program is sequential and its input is supplied: a step that can be
\* taken is taken
FairSpec == Spec /\ WF_vars(Next)

----------------------------------------------------------------------------
(* Properties *)

Planning == pc \in {"settleDebts", "loop", "round", "fallback", "printResults", "done", "crash"}
Exited == pc \in {"printResults", "done"}

IsPrefix(s, t) == Len(s) <= Len(t) /\ \A k \in 1..Len(s) : s[k] = t[k]

\* some participant with a positive balance shares an identifier with dd
EligibleCreditor(dd) ==
    \E i \in People : balance[i] > 0 /\ upis[dd] \cap upis[i] # {}

\* every participant holds at least one identifier: no round reads an empty set
AllHaveIdentifiers == \A i \in People : upis[i] # {}

\* C1: once settleDebts is entered its loop eventually reaches the state in
\* which the loop condition is false and the function returns; stated for the
\* accepted inputs in which every participant holds an identifier, so that a
\* run that reads an empty channel set is not held against the loop
C1_LoopTerminates == (pc = "settleDebts" /\ AllHaveIdentifiers) ~> (pc = "printResults")

\* C2: from the end of computeNetBalances on, after every single transfer,
\* the balances of all participants sum to zero (stated for the inputs in
\* which every participant holds an identifier)
C2_SumAlwaysZero == (Planning /\ AllHaveIdentifiers) => TotalBalance = 0

\* C3: every transfer of the settlement plan has a strictly positive amount
\* (stated for the inputs in which every participant holds an identifier)
C3_PositiveAmounts ==
    AllHaveIdentifiers => \A k \in 1..Len(result) : result[k].amount > 0

\* C4: the identifier recorded with a transfer belongs to the channel sets
\* of both its payer and its payee
C4_ChannelShared ==
    \A k \in 1..Len(result) :
        result[k].upi \in upis[result[k].payer] \cap upis[result[k].payee]

\* C5: when settleDebts has left its loop every balance is zero
C5_ExitAllZero == Exited => \A i \in People : balance[i] = 0

\* the loop is left after a run in which the Treasurer, settled at the start,
\* became unsettled and was settled again
C5_Witness ==
    /\ pc = "printResults"
    /\ Len(result) = 3
    /\ debtMatrix[0] = [j \in People |-> 0]
    /\ \A i \in People : debtMatrix[i][0] = 0
    /\ result[2].payer = 0

\* C6: the balances computeNetBalances writes sum to zero, whatever the
\* (non-negative, possibly non-zero diagonal) debt matrix
C6_NetSumZero == pc = "settleDebts" => TotalBalance = 0

\* netting of a matrix with a non-zero diagonal entry and a real debt
C6_Witness ==
    /\ pc = "settleDebts"
    /\ \E i \in People : debtMatrix[i][i] > 0
    /\ \E i \in People : balance[i] > 0

\* C7: after readParticipants the Treasurer's channel set contains every
\* participant's channel set, and no later step changes any channel set
C7_TreasurerSuperset ==
    /\ [](pc # "readParticipants" => \A i \in People : upis[i] \subseteq upis[0])
    /\ [][pc # "readParticipants" => upis' = upis]_vars

\* planning has finished for members with different non-empty channel sets
C7_Witness ==
    /\ pc = "done"
    /\ n = 3
    /\ result # << >>
    /\ upis[1] # {} /\ upis[2] # {} /\ upis[1] \cap upis[2] = {}

\* C8: a round takes the fallback branch exactly when no participant with a
\* positive balance shares an identifier with the max debtor; otherwise the
\* round emits exactly one transfer, the direct one paid by the max debtor
C8_DirectPreferred ==
    [][pc = "round" =>
         LET dd == getMaxDebtor(balance, n) IN
         IF EligibleCreditor(dd)
         THEN /\ pc' = "loop"
              /\ branch' = "direct"
              /\ Len(emitted') = 1
              /\ emitted'[1].payer = dd
              /\ Len(result') <= Len(result) + 1
         ELSE /\ pc' \in {"fallback", "crash"}
              /\ pc' = "fallback" => branch' = "fallback" /\ emitted'[1].payee = 0]_vars

\* a fallback round (two transfers through the Treasurer) has been followed
\* by a direct round (one transfer)
C8_Witness ==
    /\ pc = "loop"
    /\ branch = "direct"
    /\ Len(result) = 3
    /\ result[1].payer # 0 /\ result[1].payee = 0
    /\ result[2].payer = 0
    /\ emitted = <<result[3]>>
    /\ result[3].amount > 0

\* the input of the scenario: T {A}, P1 {B}, P2 {C} (T holds the union after
\* readParticipants) and the single debt P1 owes P2 7
ScenarioDisjoint ==
    /\ n = 3
    /\ upis = (0 :> {"A", "B", "C"} @@ 1 :> {"B"} @@ 2 :> {"C"})
    /\ debtMatrix = [i \in 0..2 |-> [j \in 0..2 |-> IF i = 1 /\ j = 2 THEN 7 ELSE 0]]

\* C9: for that input the final plan is P1 -> T 7 via B, then T -> P2 7 via C,
\* and nothing else
C9_FallbackPlan ==
    (ScenarioDisjoint /\ Exited) =>
        result = <<Transfer(1, 0, 7, "B"), Transfer(0, 2, 7, "C")>>

\* the input of the scenario: T {A}, P1 {A,B}, P2 {B} (T holds the union
\* {A,B} after readParticipants) and the single debt P2 owes T 5
ScenarioShared ==
    /\ n = 3
    /\ upis = (0 :> {"A", "B"} @@ 1 :> {"A", "B"} @@ 2 :> {"B"})
    /\ debtMatrix = [i \in 0..2 |-> [j \in 0..2 |-> IF i = 2 /\ j = 0 THEN 5 ELSE 0]]

\* C10 as stated: for that input the plan is the one direct transfer
\* P2 -> T of 5, recorded with identifier A
C10_PlanViaA ==
    (ScenarioShared /\ Planning) =>
        /\ IsPrefix(result, <<Transfer(2, 0, 5, "A")>>)
        /\ Exited => result = <<Transfer(2, 0, 5, "A")>>

\* C10 amended: for that input the plan is the one direct transfer
\* P2 -> T of 5, recorded with identifier B, the only one P2 and T share
C10_PlanViaB ==
    (ScenarioShared /\ Planning) =>
        /\ IsPrefix(result, <<Transfer(2, 0, 5, "B")>>)
        /\ Exited => result = <<Transfer(2, 0, 5, "B")>>

C10_Witness ==
    /\ ScenarioShared
    /\ pc = "printResults"
    /\ result = <<Transfer(2, 0, 5, "B")>>

\* what the accepted records say participant i is owed, and what i owes
RECURSIVE DebtIn(_, _)
DebtIn(i, k) == IF k < 0 THEN 0 ELSE debtMatrix[k][i] + DebtIn(i, k - 1)
RECURSIVE DebtOut(_, _)
DebtOut(i, k) == IF k < 0 THEN 0 ELSE debtMatrix[i][k] + DebtOut(i, k - 1)

\* the debts net to zero for everybody
NetsToZero == \A i \in People : DebtIn(i, n - 1) = DebtOut(i, n - 1)

\* C11: settleDebts started with every balance already zero emits no transfer
\* and changes no balance: its loop body is never entered
C11_NothingToSettle ==
    (Planning /\ NetsToZero) =>
        /\ result = << >>
        /\ emitted = << >>
        /\ \A i \in People : balance[i] = 0
        /\ pc \in {"settleDebts", "loop", "printResults", "done"}

\* settleDebts has returned for debts that cancel each other out
C11_Witness ==
    /\ pc = "printResults"
    /\ NetsToZero
    /\ \E i, j \in People : i # j /\ debtMatrix[i][j] > 0
    /\ result = << >>

\* C12: a rejected input ends the run in the error outcome: a debt record
\* that is not accumulated ends reading, nothing runs after the error, and in
\* the error outcome no balance was netted and the plan is empty
C12_RejectedInputNoPlan ==
    /\ [](pc = "error" =>
             /\ result = << >>
             /\ emitted = << >>
             /\ \A i \in People : balance[i] = 0)
    /\ [][/\ (pc = "readDebt" /\ m > 0 /\ debtMatrix' = debtMatrix) => pc' = "error"
          /\ pc = "error" => pc' = "error"
          /\ pc' \in {"computeNetBalances", "settleDebts", "printResults"} => pc # "error"]_vars

\* the second debt record is rejected after the first was accumulated
C12_Witness ==
    /\ pc = "error"
    /\ \E i, j \in People : debtMatrix[i][j] > 0

\* C13: the plan never contains a transfer paid by the Treasurer to the
\* Treasurer: a fallback round whose recomputed max creditor is the Treasurer
\* emits no second transfer (stated for the inputs in which every participant
\* holds an identifier)
C13_NoSelfTransfer ==
    AllHaveIdentifiers =>
        \A k \in 1..Len(result) : ~(result[k].payer = 0 /\ result[k].payee = 0)

\* C14: a fallback round leaves its debtor at zero and the Treasurer forwards
\* in the second transfer exactly what it received in the first, whatever its
\* own balance was (stated for the inputs in which every participant holds an
\* identifier)
C14_FallbackForwardsAll ==
    [][(pc = "fallback" /\ pc' = "loop" /\ AllHaveIdentifiers) =>
          /\ balance'[d] = 0
          /\ emitted'[2].amount = emitted'[1].amount]_vars

\* the participants with a positive balance who share an identifier with dd
Sharing(dd) == {i \in People : balance[i] > 0 /\ upis[dd] \cap upis[i] # {}}

\* C15: for every debtor and every balance state findSettlement returns the
\* lowest-indexed participant of largest positive balance among those sharing
\* an identifier with the debtor, that balance and the smallest shared
\* identifier; it returns -1 exactly when nobody qualifies
C15_FindSettlement ==
    \A dd \in People :
        LET fs == findSettlement(balance, upis, n, dd)
            S == Sharing(dd)
        IN  IF S = {}
            THEN fs[1] = -1
            ELSE /\ fs[1] \in S
                 /\ \A j \in S : balance[j] <= balance[fs[1]]
                 /\ \A j \in S : balance[j] = balance[fs[1]] => fs[1] <= j
                 /\ fs[2] = balance[fs[1]]
                 /\ fs[3] \in upis[dd] \cap upis[fs[1]]
                 /\ \A v \in upis[dd] \cap upis[fs[1]] : Rank(fs[3]) <= Rank(v)

\* a round starts with two creditors of equal balance, both sharing two
\* identifiers with the max debtor
C15_Witness ==
    /\ pc = "round"
    /\ LET dd == getMaxDebtor(balance, n) IN
         \E i, j \in Sharing(dd) :
            /\ i < j
            /\ balance[i] = balance[j]
            /\ Cardinality(upis[dd] \cap upis[i]) >= 2
            /\ Cardinality(upis[dd] \cap upis[j]) >= 2
            /\ balance[dd] < 0

\* C16: a direct round with debtor dd and creditor c transfers
\* min(-balance[dd], balance[c]), adds it to dd, subtracts it from c, leaves
\* every other balance and every channel set alone; afterwards dd or c is at
\* zero and neither has changed sign
C16_DirectRound ==
    [][(pc = "round" /\ pc' = "loop") =>
          LET dd == getMaxDebtor(balance, n)
              c == emitted'[1].payee
              amt == emitted'[1].amount
          IN  /\ emitted'[1].payer = dd
              /\ amt = Min(-balance[dd], balance[c])
              /\ balance'[dd] = balance[dd] + amt
              /\ balance'[c] = balance[c] - amt
              /\ \A i \in People \ {dd, c} : balance'[i] = balance[i]
              /\ upis' = upis
              /\ balance'[dd] = 0 \/ balance'[c] = 0
              /\ balance'[dd] <= 0 /\ balance'[c] >= 0]_vars

\* a direct round that paid the creditor off and left the debtor in debt
C16_Witness ==
    /\ pc = "loop"
    /\ branch = "direct"
    /\ Len(emitted) = 1
    /\ emitted[1].amount > 0
    /\ balance[emitted[1].payer] < 0
    /\ balance[emitted[1].payee] = 0

\* the net of participant i over the others 0..k, the diagonal left out
RECURSIVE NetIgnoringSelf(_, _)
NetIgnoringSelf(i, k) ==
    IF k < 0 THEN 0
    ELSE (IF k = i THEN 0 ELSE debtMatrix[k][i] - debtMatrix[i][k])
         + NetIgnoringSelf(i, k - 1)

\* C17: every accepted record adds its positive amount to one cell of the debt
\* matrix, and after computeNetBalances balance[i] is what the others owe i
\* minus what i owes the others; a record whose debtor is its creditor is
\* accepted and contributes to no balance
C17_NetBalances ==
    /\ [](pc = "settleDebts" =>
            \A i \in People :
                /\ balance[i] = DebtIn(i, n - 1) - DebtOut(i, n - 1)
                /\ balance[i] = NetIgnoringSelf(i, n - 1))
    /\ [][(pc = "readDebt" /\ pc' = "readDebt" /\ m' # m) =>
            \E i, j \in People, a \in DebtAmounts :
                /\ a > 0
                /\ debtMatrix' = [debtMatrix EXCEPT ![i][j] = @ + a]]_vars

\* netting done over a matrix holding a self-record and a cell that two
\* records were added into
C17_Witness ==
    /\ pc = "settleDebts"
    /\ \E i \in People : debtMatrix[i][i] > 0
    /\ \E i, j \in People :
          /\ i # j
          /\ debtMatrix[i][j] = 12
          /\ balance[j] = 12
          /\ balance[i] = -12

\* C18: the plan only grows at its end: every step leaves the plan as it was
\* or appends the transfer just made; a direct round appends one transfer, a
\* fallback round the debtor-to-Treasurer transfer and then the
\* Treasurer-to-creditor transfer (the plan is recorded up to MaxPlan entries)
C18_AppendOnly ==
    [][/\ IsPrefix(result, result')
       /\ (pc = "round" /\ pc' # "crash" /\ Len(result) < MaxPlan) =>
              /\ result' = Append(result, emitted'[1])
              /\ pc' = "fallback" => emitted'[1].payee = 0
       /\ (pc = "fallback" /\ pc' = "loop" /\ Len(result) < MaxPlan) =>
              /\ result' = Append(result, emitted'[2])
              /\ emitted'[2].payer = 0
              /\ emitted'[1] = emitted[1]
       /\ (pc \notin {"round", "fallback"} \/ pc' = "crash") => result' = result]_vars

\* a plan of a direct transfer followed by the two transfers of a fallback round
C18_Witness ==
    /\ pc = "loop"
    /\ branch = "fallback"
    /\ Len(result) = 3
    /\ result[1].payer = 0
    /\ result[1].payee # 0
    /\ result[2].payer # 0
    /\ result[2].payee = 0
    /\ result[3].payer = 0
    /\ result[3] = emitted[2]
    /\ result[2] = emitted[1]

\* C19: the fallback branch never takes the first element of an empty
\* identifier set: in a fallback round both the debtor and the creditor the
\* Treasurer forwards to hold an identifier
C19_NoEmptyDeref ==
    /\ pc # "crash"
    /\ pc = "fallback" =>
          /\ upis[d] # {}
          /\ upis[getMaxCreditor(balance, n)] # {}

====
